---- MODULE Spec2Model ----
(***************************************************************************)
(* Model of the Airbyte provisioning scripts:                              *)
(*   scripts/airbyte_client.py  - AirbyteClient, a wrapper of the REST API *)
(*   scripts/setup_pipeline.py  - build_sync_catalog and main              *)
(*                                                                         *)
(* Spec        one run of main(), one action per step of the script        *)
(* SpecClient  one client operation applied to any HTTP exchange           *)
(* SpecCatalog build_sync_catalog applied to any discovery and table list  *)
(***************************************************************************)
EXTENDS Integers, Sequences, FiniteSets, TLC

VARIABLES
    pc,              \* position of main()
    log,             \* remote calls issued so far: <<[op, payload, outcome], ...>>
    source_id,       \* main's local source_id
    destination_id,  \* main's local destination_id
    connection_id,   \* main's local connection_id
    conn_cfg,        \* values read from connection.yaml (tables, modes, ...)
    sync_catalog,    \* main's local sync_catalog
    build,           \* outcome of the build_sync_catalog call of main
    stderr,          \* the diagnostic main printed, if any
    stdout,          \* the identifiers of the final summary
    exit_code,       \* exit status of the process, once it has ended
    loaded,          \* what main loaded last: the environment or a document
    last             \* SpecClient: the last client operation, its exchange and outcome

vars == <<pc, log, source_id, destination_id, connection_id, conn_cfg,
          sync_catalog, build, stderr, stdout, exit_code, loaded, last>>

-----------------------------------------------------------------------------
(* Bounds of the model *)

\* longest stream list of a discovery response
MaxStreams == 3
\* longest table list of connection.yaml
MaxTables == 2

-----------------------------------------------------------------------------
(* Values *)

Unset == "unset"

\* no client operation was applied yet
NoCall == [op |-> "none"]

API_URL == "https://api.airbyte.com/v1"

WORKSPACE_ID == "ws-1"

SourceIds == {"src-1", "src-2"}
DestinationIds == {"dst-1", "dst-2"}
ConnectionIds == {"conn-1", "conn-2"}

TableNames == {"A", "B", "C"}

\* The entries a discovery response may hold. Two entries are named A and
\* differ in schema, cursor and key, so that a response can repeat a name.
StreamPool ==
    { [stream |-> [name |-> "A", jsonSchema |-> "schemaA1",
                   supportedSyncModes |-> <<"full_refresh", "incremental">>,
                   sourceDefinedCursor |-> <<"_ab_cdc_lsn">>,
                   sourceDefinedPrimaryKey |-> <<"id">>]],
      [stream |-> [name |-> "A", jsonSchema |-> "schemaA2",
                   supportedSyncModes |-> <<"full_refresh">>]],
      [stream |-> [name |-> "B", jsonSchema |-> "schemaB",
                   supportedSyncModes |-> <<"full_refresh", "incremental">>,
                   sourceDefinedCursor |-> <<"_ab_cdc_lsn">>]],
      [stream |-> [name |-> "C", jsonSchema |-> "schemaC",
                   supportedSyncModes |-> <<"full_refresh">>,
                   sourceDefinedPrimaryKey |-> <<"id">>]] }

SeqsUpTo(S, n) == UNION { [1..k -> S] : k \in 0..n }

StreamLists == SeqsUpTo(StreamPool, MaxStreams)

TableLists == SeqsUpTo(TableNames, MaxTables)

\* HTTP status codes a response may carry
StatusCodes == {200, 201, 404, 500}

\* Response bodies. A body is text that is not JSON, a JSON array, or a JSON
\* object (a record holding the keys that are present).
TextBody == [kind |-> "text", text |-> "<html>Bad Gateway</html>"]
ArrayBody == [kind |-> "array"]
Obj(o) == [kind |-> "object", obj |-> o]

ErrorObjects == { [message |-> "boom"], [message |-> ""], [error |-> "denied"] }
SourceObjects == { [sourceId |-> s] : s \in SourceIds }
DestinationObjects == { [destinationId |-> d] : d \in DestinationIds }
ConnectionObjects == { [connectionId |-> c] : c \in ConnectionIds }
CheckObjects == { [status |-> "succeeded"],
                  [status |-> "SUCCEEDED"],
                  [status |-> "failed", message |-> "Could not connect"],
                  [jobInfo |-> "job-1"] }
DiscoverObjects == { [streams |-> sl] : sl \in StreamLists }

\* requests.post / requests.get either raises (timeout, no connection) or
\* returns a response.
NoResponse == [kind |-> "no_response"]
Response(code, body) == [kind |-> "response", status_code |-> code, body |-> body]

Exchanges(objects) ==
    {NoResponse} \cup
    { Response(c, b) : c \in StatusCodes,
                       b \in {TextBody, ArrayBody} \cup
                             { Obj(o) : o \in ErrorObjects \cup objects } }

AllExchanges ==
    Exchanges(SourceObjects \cup DestinationObjects \cup ConnectionObjects
              \cup CheckObjects \cup DiscoverObjects)

\* The exchanges main's discovery call draws from: every stream list under
\* status 200, and the other statuses with the empty stream list.
DiscoverExchanges ==
    Exchanges({[streams |-> <<>>]}) \cup
    { Response(200, Obj(o)) : o \in DiscoverObjects }

-----------------------------------------------------------------------------
(* Outcome of a call: a returned value or a raised exception *)

Return(v) == [kind |-> "return", value |-> v]
Raise(exc, info) == [kind |-> "raise", exc |-> exc, info |-> info]

Returned(o) == o.kind = "return"
Raised(o) == o.kind = "raise"
RaisedApiError(o) == o.kind = "raise" /\ o.exc = "AirbyteAPIError"

\* requests.Response.ok: raise_for_status() raises for 400 <= status < 600
Ok(resp) == ~(400 <= resp.status_code /\ resp.status_code < 600)

\* dict.get(key) of a JSON object
Has(obj, key) == key \in DOMAIN obj

\* payload.get("message") or payload
ErrorMsg(payload) ==
    IF Has(payload.obj, "message") /\ payload.obj.message # ""
    THEN [from |-> "message", text |-> payload.obj.message]
    ELSE [from |-> "payload", payload |-> payload.obj]

\* AirbyteClient._post and AirbyteClient._get
Request(method, path, x) ==
    IF x.kind = "no_response"
    THEN Raise("RequestException", [method |-> method])
    ELSE IF x.body.kind = "text"
    THEN Raise("AirbyteAPIError",
               [form |-> "non_json", url |-> <<API_URL, path>>, text |-> x.body.text])
    ELSE IF ~Ok(x)
    THEN IF x.body.kind # "object"
         THEN Raise("AttributeError", [attr |-> "get"])
         ELSE Raise("AirbyteAPIError",
                    [form |-> "http", method |-> method, path |-> path,
                     status_code |-> x.status_code, msg |-> ErrorMsg(x.body)])
    ELSE Return(x.body)

_post(path, x) == Request("POST", path, x)

_get(path, x) == Request("GET", path, x)

\* resp[key] of a decoded payload
Subscript(r, key) ==
    IF Raised(r) THEN r
    ELSE IF r.value.kind # "object" THEN Raise("TypeError", [key |-> key])
    ELSE IF ~Has(r.value.obj, key) THEN Raise("KeyError", [key |-> key])
    ELSE Return(r.value.obj[key])

\* Variant of StatusSucceeded: a check that did not succeed raises the API error
StatusSucceededOrRaise(r) ==
    IF Raised(r) THEN r
    ELSE IF r.value.kind # "object" THEN Raise("AttributeError", [attr |-> "get"])
    ELSE IF Has(r.value.obj, "status") /\ r.value.obj.status = "succeeded"
    THEN Return(TRUE)
    ELSE Raise("AirbyteAPIError", [form |-> "check_failed"])

\* resp.get("status") == "succeeded"
StatusSucceeded(r) ==
    IF Raised(r) THEN r
    ELSE IF r.value.kind # "object" THEN Raise("AttributeError", [attr |-> "get"])
    ELSE Return(Has(r.value.obj, "status") /\ r.value.obj.status = "succeeded")

create_source_payload(name, definition_id, config) ==
    [name |-> name, sourceDefinitionId |-> definition_id,
     workspaceId |-> WORKSPACE_ID, connectionConfiguration |-> config]

create_source(x) == Subscript(_post("/sources/create", x), "sourceId")

check_source(x) == StatusSucceeded(_post("/sources/check_connection", x))

create_destination_payload(name, definition_id, config) ==
    [name |-> name, destinationDefinitionId |-> definition_id,
     workspaceId |-> WORKSPACE_ID, connectionConfiguration |-> config]

create_destination(x) == Subscript(_post("/destinations/create", x), "destinationId")

check_destination(x) == StatusSucceeded(_post("/destinations/check_connection", x))

\* the payload of discover_schema: the filter object is sent only when one
\* of database, schema, tables is non-empty, and holds the non-empty ones
discover_schema_payload(sid, database, schema, tables) ==
    [sourceId |-> sid, connectorType |-> "source",
     schema |-> IF database # "" \/ schema # "" \/ tables # <<>>
                THEN [sent |-> TRUE,
                      database |-> IF database # "" THEN <<database>> ELSE <<>>,
                      schema |-> IF schema # "" THEN <<schema>> ELSE <<>>,
                      tables |-> IF tables # <<>> THEN <<tables>> ELSE <<>>]
                ELSE [sent |-> FALSE, database |-> <<>>, schema |-> <<>>,
                      tables |-> <<>>]]

discover_schema(x) == _post("/connections/discover_schema", x)

create_connection_payload(name, sid, did, namespace_format, schedule, catalog, auto_propagate_schema, status) ==
    [name |-> name, sourceId |-> sid, destinationId |-> did,
     namespaceFormat |-> namespace_format, schedule |-> schedule,
     syncCatalog |-> catalog, autoPropagateSchema |-> auto_propagate_schema,
     status |-> status]

create_connection(x) == Subscript(_post("/connections/create", x), "connectionId")

get_connection(x) == _get("/connections/get", x)

-----------------------------------------------------------------------------
(* setup_pipeline.py: build_sync_catalog *)

Range(s) == { s[i] : i \in 1..Len(s) }

\* the catalog entry built for one retained discovery entry
CatalogEntry(stream_entry, sync_mode, dest_sync_mode) ==
    [stream |-> [name |-> stream_entry.stream.name,
                 jsonSchema |-> stream_entry.stream.jsonSchema,
                 supportedSyncModes |-> stream_entry.stream.supportedSyncModes],
     syncMode |-> sync_mode,
     destinationSyncMode |-> dest_sync_mode,
     cursorField |-> IF Has(stream_entry.stream, "sourceDefinedCursor")
                     THEN stream_entry.stream.sourceDefinedCursor ELSE <<>>,
     primaryKey |-> IF Has(stream_entry.stream, "sourceDefinedPrimaryKey")
                    THEN stream_entry.stream.sourceDefinedPrimaryKey ELSE <<>>]

\* Variant of FilterStreams: the loop runs over tables and appends, for each
\* requested name, the discovered entries of that name
FilterStreamsInTableOrder(all_streams, tables, sync_mode, dest_sync_mode) ==
    LET Named(t) == SelectSeq(all_streams, LAMBDA e : e.stream.name = t)
        Upto[k \in 0..Len(tables)] ==
            IF k = 0 THEN <<>> ELSE Upto[k - 1] \o Named(tables[k])
        kept == Upto[Len(tables)]
    IN  [i \in 1..Len(kept) |-> CatalogEntry(kept[i], sync_mode, dest_sync_mode)]

\* the loop over all_streams that appends an entry for each name in tables
FilterStreams(all_streams, tables, sync_mode, dest_sync_mode) ==
    LET kept == SelectSeq(all_streams, LAMBDA e : e.stream.name \in Range(tables))
    IN  [i \in 1..Len(kept) |-> CatalogEntry(kept[i], sync_mode, dest_sync_mode)]

StreamNames(streams) == { streams[i].stream.name : i \in 1..Len(streams) }

\* Variant of build_sync_catalog without the test for an empty stream list
build_sync_catalog_no_empty_test(r, tables, sync_mode, dest_sync_mode) ==
    IF Raised(r) THEN r
    ELSE IF r.value.kind # "object" THEN Raise("AttributeError", [attr |-> "get"])
    ELSE
      LET all_streams == IF Has(r.value.obj, "streams") THEN r.value.obj.streams
                         ELSE <<>>
          filtered == FilterStreams(all_streams, tables, sync_mode, dest_sync_mode)
      IN  IF Len(filtered) # Len(tables)
          THEN Raise("Exception",
                     [form |-> "not_discovered",
                      missing |-> Range(tables) \ StreamNames(filtered)])
          ELSE Return([streams |-> filtered])

\* build_sync_catalog, given the outcome r of its discover_schema call
build_sync_catalog(r, tables, sync_mode, dest_sync_mode) ==
    IF Raised(r) THEN r
    ELSE IF r.value.kind # "object" THEN Raise("AttributeError", [attr |-> "get"])
    ELSE
      LET all_streams == IF Has(r.value.obj, "streams") THEN r.value.obj.streams
                         ELSE <<>>
      IN  IF all_streams = <<>>
          THEN Raise("Exception", [form |-> "no_streams", tables |-> tables])
          ELSE
            LET filtered == FilterStreams(all_streams, tables, sync_mode,
                                          dest_sync_mode)
            IN  IF Len(filtered) # Len(tables)
                THEN Raise("Exception",
                           [form |-> "not_discovered",
                            missing |-> Range(tables) \ StreamNames(filtered)])
                ELSE Return([streams |-> filtered])

-----------------------------------------------------------------------------
(* setup_pipeline.py: main *)

\* os.environ is read in this order
EnvOrder ==
    <<"AIRBYTE_API_TOKEN", "AIRBYTE_WORKSPACE_ID",
      "SQLSERVER_HOST", "SQLSERVER_PORT", "SQLSERVER_USERNAME", "SQLSERVER_PASSWORD",
      "SNOWFLAKE_ACCOUNT", "SNOWFLAKE_USERNAME", "SNOWFLAKE_PASSWORD",
      "SNOWFLAKE_ROLE", "SNOWFLAKE_WAREHOUSE">>

\* the keys main reads with cfg[key], in the order it reads them
SourceKeys == <<"name", "definitionId", "connectionConfiguration">>
DestinationKeys == <<"name", "definitionId", "connectionConfiguration">>
ConnectionKeys == <<"name", "schedule", "tables", "syncMode", "destinationSyncMode">>
\* the keys main reads with cfg.get(key, default)
ConnectionOptionalKeys == {"namespaceFormat", "autoPropagateSchema"}

\* first element of order that is not in present ("" when all are)
FirstMissing(order, present) ==
    IF \A i \in 1..Len(order) : order[i] \in present THEN ""
    ELSE order[CHOOSE i \in 1..Len(order) :
                   /\ order[i] \notin present
                   /\ \A j \in 1..(i - 1) : order[j] \in present]

\* what load_and_render_yaml can give: a parse failure (it exits), a
\* document that is no mapping (an empty file loads as None), or a mapping
YamlError == [kind |-> "yaml_error"]
NotMapping == [kind |-> "not_mapping"]
Mapping(keys, values) == [kind |-> "mapping", keys |-> keys, values |-> values]

SourceDocs ==
    {YamlError, NotMapping} \cup
    { Mapping(k, [name |-> "mssql", definitionId |-> "def-mssql",
                  connectionConfiguration |-> "mssql-config"]) :
        k \in SUBSET Range(SourceKeys) }

DestinationDocs ==
    {YamlError, NotMapping} \cup
    { Mapping(k, [name |-> "snowflake", definitionId |-> "def-snowflake",
                  connectionConfiguration |-> "snowflake-config"]) :
        k \in SUBSET Range(DestinationKeys) }

SyncModes == { [syncMode |-> "incremental", destinationSyncMode |-> "append_dedup"],
               [syncMode |-> "full_refresh", destinationSyncMode |-> "overwrite"] }

ConnectionDocs ==
    {YamlError, NotMapping} \cup
    { Mapping(k, [name |-> "mssql-to-snowflake",
                  namespaceFormat |-> "custom_${SOURCE_NAMESPACE}",
                  schedule |-> [units |-> 5, timeUnit |-> "minutes"],
                  tables |-> t,
                  syncMode |-> m.syncMode,
                  destinationSyncMode |-> m.destinationSyncMode,
                  autoPropagateSchema |-> TRUE]) :
        k \in SUBSET (Range(ConnectionKeys) \cup ConnectionOptionalKeys),
        t \in TableLists, m \in SyncModes }

\* print(..., file=sys.stderr); sys.exit(1)
Exit(message) ==
    /\ pc' = "exited"
    /\ stderr' = message
    /\ exit_code' = 1

\* an exception no handler of main catches: traceback, exit status 1
Crash(o) ==
    /\ pc' = "crashed"
    /\ stderr' = [error |-> "traceback", exc |-> o.exc]
    /\ exit_code' = 1

Goto(label) ==
    /\ pc' = label
    /\ UNCHANGED <<stderr, exit_code>>

\* the remote call op with payload and outcome o was issued
Issue(op, payload, o) ==
    log' = Append(log, [op |-> op, payload |-> payload, outcome |-> o])

Init ==
    /\ pc = "load_env"
    /\ log = <<>>
    /\ source_id = Unset
    /\ destination_id = Unset
    /\ connection_id = Unset
    /\ conn_cfg = Unset
    /\ sync_catalog = Unset
    /\ build = Unset
    /\ stderr = Unset
    /\ stdout = Unset
    /\ exit_code = Unset
    /\ loaded = [file |-> "none", kind |-> "none", keys |-> {}]
    /\ last = NoCall

\* 1) load env
LoadEnv ==
    /\ pc = "load_env"
    /\ \E environ \in SUBSET Range(EnvOrder) :
         LET var == FirstMissing(EnvOrder, environ)
         IN  /\ loaded' = [file |-> "environ", kind |-> "mapping", keys |-> environ]
             /\ IF var # ""
                THEN Exit([error |-> "missing_env", var |-> var])
                ELSE Goto("load_source_cfg")
    /\ UNCHANGED <<log, source_id, destination_id, connection_id, conn_cfg,
                   sync_catalog, build, stdout, last>>

\* Variant of ReadKeys: the keys are read with cfg.get(key), so that a
\* missing key is not an error
ReadKeysNoAbort(doc, file, order, next) ==
    /\ loaded' = [file |-> file, kind |-> doc.kind,
                  keys |-> IF doc.kind = "mapping" THEN doc.keys \cap Range(order)
                           ELSE {}]
    /\ IF doc.kind = "yaml_error"
       THEN Exit([error |-> "yaml", file |-> file])
       ELSE IF doc.kind = "not_mapping"
       THEN Crash(Raise("TypeError", [file |-> file]))
       ELSE Goto(next)

\* the try block that reads the required keys of a loaded document
ReadKeys(doc, file, order, next) ==
    /\ loaded' = [file |-> file, kind |-> doc.kind,
                  keys |-> IF doc.kind = "mapping" THEN doc.keys \cap Range(order)
                           ELSE {}]
    /\ IF doc.kind = "yaml_error"
       THEN Exit([error |-> "yaml", file |-> file])
       ELSE IF doc.kind = "not_mapping"
       THEN Crash(Raise("TypeError", [file |-> file]))
       ELSE IF FirstMissing(order, doc.keys) # ""
       THEN Exit([error |-> "missing_key", file |-> file,
                  key |-> FirstMissing(order, doc.keys)])
       ELSE Goto(next)

LoadSourceConfig ==
    /\ pc = "load_source_cfg"
    /\ \E doc \in SourceDocs :
         ReadKeys(doc, "mssql_source.yaml", SourceKeys, "create_source")
    /\ UNCHANGED <<log, source_id, destination_id, connection_id, conn_cfg,
                   sync_catalog, build, stdout, last>>

SourcePayload ==
    create_source_payload("mssql", "def-mssql", "mssql-config")

CreateSource ==
    /\ pc = "create_source"
    /\ \E x \in Exchanges(SourceObjects) :
         LET o == create_source(x)
         IN  /\ Issue("create_source", SourcePayload, o)
             /\ IF Returned(o)
                THEN Goto("check_source") /\ source_id' = o.value
                ELSE /\ UNCHANGED source_id
                     /\ IF RaisedApiError(o)
                        THEN Exit([error |-> "create_source", exc |-> o])
                        ELSE Crash(o)
    /\ UNCHANGED <<destination_id, connection_id, conn_cfg, sync_catalog, build,
                   stdout, loaded, last>>

CheckSource ==
    /\ pc = "check_source"
    /\ \E x \in Exchanges(CheckObjects) :
         LET o == check_source(x)
         IN  /\ Issue("check_source", [sourceId |-> source_id], o)
             /\ IF Raised(o) THEN Crash(o)
                ELSE IF ~o.value THEN Exit([error |-> "source_check_failed"])
                ELSE Goto("load_destination_cfg")
    /\ UNCHANGED <<source_id, destination_id, connection_id, conn_cfg,
                   sync_catalog, build, stdout, loaded, last>>

LoadDestinationConfig ==
    /\ pc = "load_destination_cfg"
    /\ \E doc \in DestinationDocs :
         ReadKeys(doc, "snowflake_destination.yaml", DestinationKeys,
                  "create_destination")
    /\ UNCHANGED <<log, source_id, destination_id, connection_id, conn_cfg,
                   sync_catalog, build, stdout, last>>

DestinationPayload ==
    create_destination_payload("snowflake", "def-snowflake", "snowflake-config")

CreateDestination ==
    /\ pc = "create_destination"
    /\ \E x \in Exchanges(DestinationObjects) :
         LET o == create_destination(x)
         IN  /\ Issue("create_destination", DestinationPayload, o)
             /\ IF Returned(o)
                THEN Goto("check_destination") /\ destination_id' = o.value
                ELSE /\ UNCHANGED destination_id
                     /\ IF RaisedApiError(o)
                        THEN Exit([error |-> "create_destination", exc |-> o])
                        ELSE Crash(o)
    /\ UNCHANGED <<source_id, connection_id, conn_cfg, sync_catalog, build,
                   stdout, loaded, last>>

\* Variant of CheckDestination: the result of the check is not tested
CheckDestinationContinues ==
    /\ pc = "check_destination"
    /\ \E x \in Exchanges(CheckObjects) :
         LET o == check_destination(x)
         IN  /\ Issue("check_destination", [destinationId |-> destination_id], o)
             /\ IF Raised(o) THEN Crash(o) ELSE Goto("load_connection_cfg")
    /\ UNCHANGED <<source_id, destination_id, connection_id, conn_cfg,
                   sync_catalog, build, stdout, loaded, last>>

CheckDestination ==
    /\ pc = "check_destination"
    /\ \E x \in Exchanges(CheckObjects) :
         LET o == check_destination(x)
         IN  /\ Issue("check_destination", [destinationId |-> destination_id], o)
             /\ IF Raised(o) THEN Crash(o)
                ELSE IF ~o.value THEN Exit([error |-> "destination_check_failed"])
                ELSE Goto("load_connection_cfg")
    /\ UNCHANGED <<source_id, destination_id, connection_id, conn_cfg,
                   sync_catalog, build, stdout, loaded, last>>

\* the values main keeps of connection.yaml
ConnectionValues(doc) ==
    [name |-> doc.values.name,
     namespace_format |-> IF "namespaceFormat" \in doc.keys
                          THEN doc.values.namespaceFormat
                          ELSE "${SOURCE_NAMESPACE}",
     schedule |-> doc.values.schedule,
     tables |-> doc.values.tables,
     sync_mode |-> doc.values.syncMode,
     dest_sync_mode |-> doc.values.destinationSyncMode,
     auto_propagate |-> IF "autoPropagateSchema" \in doc.keys
                        THEN doc.values.autoPropagateSchema
                        ELSE TRUE]

LoadConnectionConfig ==
    /\ pc = "load_connection_cfg"
    /\ \E doc \in ConnectionDocs :
         /\ ReadKeys(doc, "connection.yaml", ConnectionKeys, "build_sync_catalog")
         /\ IF doc.kind = "mapping" /\ FirstMissing(ConnectionKeys, doc.keys) = ""
            THEN conn_cfg' = ConnectionValues(doc)
            ELSE UNCHANGED conn_cfg
    /\ UNCHANGED <<log, source_id, destination_id, connection_id, sync_catalog,
                   build, stdout, last>>

\* build_sync_catalog called by main: one discover_schema call, then the
\* filter; main catches every Exception of it
BuildSyncCatalog ==
    /\ pc = "build_sync_catalog"
    /\ \E x \in DiscoverExchanges :
         LET r == discover_schema(x)
             o == build_sync_catalog(r, conn_cfg.tables, conn_cfg.sync_mode,
                                     conn_cfg.dest_sync_mode)
         IN  /\ Issue("discover_schema",
                      discover_schema_payload(source_id, "LoanDataServices", "dbo",
                                              conn_cfg.tables), r)
             /\ build' = o
             /\ IF Returned(o)
                THEN Goto("create_connection") /\ sync_catalog' = o.value
                ELSE /\ UNCHANGED sync_catalog
                     /\ Exit([error |-> "build_sync_catalog", exc |-> o])
    /\ UNCHANGED <<source_id, destination_id, connection_id, conn_cfg, stdout, loaded, last>>

\* Variant of CreateConnection: the two identifiers are passed in the wrong
\* order
CreateConnectionSwapsIds ==
    /\ pc = "create_connection"
    /\ \E x \in Exchanges(ConnectionObjects) :
         LET o == create_connection(x)
         IN  /\ Issue("create_connection",
                      create_connection_payload(conn_cfg.name, destination_id,
                          source_id, conn_cfg.namespace_format,
                          conn_cfg.schedule, sync_catalog, conn_cfg.auto_propagate,
                          "active"), o)
             /\ IF Returned(o)
                THEN Goto("print_summary") /\ connection_id' = o.value
                ELSE /\ UNCHANGED connection_id
                     /\ IF RaisedApiError(o)
                        THEN Exit([error |-> "create_connection", exc |-> o])
                        ELSE Crash(o)
    /\ UNCHANGED <<source_id, destination_id, conn_cfg, sync_catalog, build,
                   stdout, loaded, last>>

CreateConnection ==
    /\ pc = "create_connection"
    /\ \E x \in Exchanges(ConnectionObjects) :
         LET o == create_connection(x)
         IN  /\ Issue("create_connection",
                      create_connection_payload(conn_cfg.name, source_id,
                          destination_id, conn_cfg.namespace_format,
                          conn_cfg.schedule, sync_catalog, conn_cfg.auto_propagate,
                          "active"), o)
             /\ IF Returned(o)
                THEN Goto("print_summary") /\ connection_id' = o.value
                ELSE /\ UNCHANGED connection_id
                     /\ IF RaisedApiError(o)
                        THEN Exit([error |-> "create_connection", exc |-> o])
                        ELSE Crash(o)
    /\ UNCHANGED <<source_id, destination_id, conn_cfg, sync_catalog, build,
                   stdout, loaded, last>>

\* the final prints; main returns and the process exits with status 0
PrintSummary ==
    /\ pc = "print_summary"
    /\ pc' = "done"
    /\ stdout' = [source_id |-> source_id, destination_id |-> destination_id,
                  connection_id |-> connection_id]
    /\ exit_code' = 0
    /\ UNCHANGED <<log, source_id, destination_id, connection_id, conn_cfg,
                   sync_catalog, build, stderr, loaded, last>>

Next ==
    \/ LoadEnv
    \/ LoadSourceConfig
    \/ CreateSource
    \/ CheckSource
    \/ LoadDestinationConfig
    \/ CreateDestination
    \/ CheckDestination
    \/ LoadConnectionConfig
    \/ BuildSyncCatalog
    \/ CreateConnection
    \/ PrintSummary

Spec == Init /\ [][Next]_vars

-----------------------------------------------------------------------------
(* SpecClient: one client operation applied to any exchange *)

OthersUnchanged ==
    UNCHANGED <<pc, log, source_id, destination_id, connection_id, conn_cfg,
                sync_catalog, build, stderr, stdout, exit_code, loaded>>

Applied(op, x, o) ==
    /\ last' = [op |-> op, exchange |-> x, outcome |-> o]
    /\ OthersUnchanged

ClientCreateSource ==
    /\ last = NoCall
    /\ \E x \in AllExchanges : Applied("create_source", x, create_source(x))

ClientCheckSource ==
    /\ last = NoCall
    /\ \E x \in AllExchanges : Applied("check_source", x, check_source(x))

ClientCreateDestination ==
    /\ last = NoCall
    /\ \E x \in AllExchanges : Applied("create_destination", x, create_destination(x))

ClientCheckDestination ==
    /\ last = NoCall
    /\ \E x \in AllExchanges : Applied("check_destination", x, check_destination(x))

ClientDiscoverSchema ==
    /\ last = NoCall
    /\ \E x \in AllExchanges : Applied("discover_schema", x, discover_schema(x))

ClientCreateConnection ==
    /\ last = NoCall
    /\ \E x \in AllExchanges : Applied("create_connection", x, create_connection(x))

ClientGetConnection ==
    /\ last = NoCall
    /\ \E x \in AllExchanges : Applied("get_connection", x, get_connection(x))

NextClient ==
    \/ ClientCreateSource
    \/ ClientCheckSource
    \/ ClientCreateDestination
    \/ ClientCheckDestination
    \/ ClientDiscoverSchema
    \/ ClientCreateConnection
    \/ ClientGetConnection

SpecClient == Init /\ [][NextClient]_vars

-----------------------------------------------------------------------------
(* SpecCatalog: build_sync_catalog applied to any discovery exchange, table
   list and pair of sync modes *)

\* the list the filter loop of build_sync_catalog produced, when the call
\* reached it
FilterOutput(r, tables, sync_mode, dest_sync_mode) ==
    IF Returned(r) /\ r.value.kind = "object" /\ Has(r.value.obj, "streams")
       /\ r.value.obj.streams # <<>>
    THEN [reached |-> TRUE,
          filtered |-> FilterStreams(r.value.obj.streams, tables, sync_mode,
                                     dest_sync_mode)]
    ELSE [reached |-> FALSE, filtered |-> <<>>]

BuildCatalog ==
    /\ last = NoCall
    /\ \E x \in AllExchanges, tables \in TableLists, m \in SyncModes :
         LET r == discover_schema(x)
         IN  last' = [op |-> "build_sync_catalog", exchange |-> x,
                      tables |-> tables, sync_mode |-> m.syncMode,
                      dest_sync_mode |-> m.destinationSyncMode,
                      filter |-> FilterOutput(r, tables, m.syncMode,
                                              m.destinationSyncMode),
                      outcome |-> build_sync_catalog(r, tables, m.syncMode,
                                                     m.destinationSyncMode)]
    /\ OthersUnchanged

NextCatalog == BuildCatalog

SpecCatalog == Init /\ [][NextCatalog]_vars

-----------------------------------------------------------------------------
(* Properties of build_sync_catalog, under SpecCatalog *)

\* build_sync_catalog was applied
Built == last.op = "build_sync_catalog"

\* the discovery call was answered with a success status and a JSON object
Discovered ==
    /\ Built
    /\ last.exchange.kind = "response"
    /\ last.exchange.status_code \in 200..299
    /\ last.exchange.body.kind = "object"

\* the raw discovery stream list (empty when the object holds none)
RawStreams ==
    IF "streams" \in DOMAIN last.exchange.body.obj
    THEN last.exchange.body.obj.streams
    ELSE <<>>

NameAt(streams, i) == streams[i].stream.name

Names(streams) == { NameAt(streams, i) : i \in 1..Len(streams) }

NoDuplicates(s) == \A i, j \in 1..Len(s) : s[i] = s[j] => i = j

NoDuplicateNames(streams) ==
    \A i, j \in 1..Len(streams) : NameAt(streams, i) = NameAt(streams, j) => i = j

\* the positions of the raw list whose name is requested
KeptPositions == { i \in 1..Len(RawStreams) : NameAt(RawStreams, i) \in Range(last.tables) }

\* the k-th smallest kept position
KthKept(k) == CHOOSE i \in KeptPositions : Cardinality({ j \in KeptPositions : j <= i }) = k

\* entry is the catalog entry of the discovery entry raw
Carries(entry, raw) ==
    /\ DOMAIN entry = {"stream", "syncMode", "destinationSyncMode", "cursorField",
                       "primaryKey"}
    /\ DOMAIN entry.stream = {"name", "jsonSchema", "supportedSyncModes"}
    /\ entry.stream.name = raw.stream.name
    /\ entry.stream.jsonSchema = raw.stream.jsonSchema
    /\ entry.stream.supportedSyncModes = raw.stream.supportedSyncModes
    /\ entry.syncMode = last.sync_mode
    /\ entry.destinationSyncMode = last.dest_sync_mode
    /\ entry.cursorField = IF "sourceDefinedCursor" \in DOMAIN raw.stream
                           THEN raw.stream.sourceDefinedCursor ELSE <<>>
    /\ entry.primaryKey = IF "sourceDefinedPrimaryKey" \in DOMAIN raw.stream
                          THEN raw.stream.sourceDefinedPrimaryKey ELSE <<>>

\* C3: whenever build_sync_catalog returns a catalog, every requested table
\* name appears exactly once among the catalog's streams and the catalog has
\* as many streams as tables were requested, also when the discovery result
\* repeats a stream name.
C3_RequestedExactlyOnce ==
    (Built /\ Returned(last.outcome)) =>
        LET catalog == last.outcome.value.streams
        IN  /\ Len(catalog) = Len(last.tables)
            /\ \A i \in 1..Len(last.tables) :
                 Cardinality({ k \in 1..Len(catalog) :
                                 NameAt(catalog, k) = last.tables[i] }) = 1

\* C5: for a non-empty discovery stream list and a requested list with a
\* name absent from it, build_sync_catalog fails and the error carries
\* exactly the requested names that were not retained: a non-empty set that
\* holds every absent name and no present name.
C5_MissingTablesReported ==
    (Discovered /\ RawStreams # <<>>
       /\ \E t \in Range(last.tables) : t \notin Names(RawStreams)) =>
        /\ Raised(last.outcome)
        /\ last.outcome.exc = "Exception"
        /\ last.outcome.info.form = "not_discovered"
        /\ last.outcome.info.missing =
             Range(last.tables) \ (Names(RawStreams) \cap Range(last.tables))
        /\ last.outcome.info.missing # {}
        /\ \A t \in Range(last.tables) :
             t \in last.outcome.info.missing <=> t \notin Names(RawStreams)

\* C6: the list the filter step produces is the subsequence of the raw
\* discovery list whose names are requested, in discovery order whatever the
\* order of the requested list; each entry carries the discovered name,
\* schema and supported sync modes, the caller's two sync modes, and the
\* source-defined cursor and primary key (the empty list when not declared).
\* A returned catalog holds exactly that list.
C6_FilterIsSubsequence ==
    (Built /\ last.filter.reached) =>
        LET filtered == last.filter.filtered
        IN  /\ Len(filtered) = Cardinality(KeptPositions)
            /\ \A k \in 1..Len(filtered) : Carries(filtered[k], RawStreams[KthKept(k)])
            /\ Returned(last.outcome) => last.outcome.value = [streams |-> filtered]

\* discovery <<A, B, C>>, requested <<C, A>>: the catalog is <<A, C>>
C6_Witness ==
    /\ Discovered
    /\ Len(RawStreams) = 3
    /\ <<NameAt(RawStreams, 1), NameAt(RawStreams, 2), NameAt(RawStreams, 3)>>
         = <<"A", "B", "C">>
    /\ last.tables = <<"C", "A">>
    /\ Returned(last.outcome)
    /\ Len(last.outcome.value.streams) = 2
    /\ NameAt(last.outcome.value.streams, 1) = "A"
    /\ NameAt(last.outcome.value.streams, 2) = "C"
    /\ last.outcome.value.streams[1].cursorField = <<"_ab_cdc_lsn">>
    /\ last.outcome.value.streams[2].cursorField = <<>>

\* C10: when neither the requested list nor the discovery list repeats a
\* name, build_sync_catalog succeeds exactly when the discovery list is
\* non-empty and holds every requested name; an empty requested list gives
\* the empty catalog against a non-empty discovery and fails against an
\* empty one.
C10_SucceedsIffAllDiscovered ==
    (Discovered /\ NoDuplicates(last.tables) /\ NoDuplicateNames(RawStreams)) =>
        /\ Returned(last.outcome) <=>
             (RawStreams # <<>> /\ Range(last.tables) \subseteq Names(RawStreams))
        /\ (last.tables = <<>> /\ RawStreams # <<>>) =>
             (Returned(last.outcome) /\ last.outcome.value.streams = <<>>)
        /\ RawStreams = <<>> => Raised(last.outcome)

\* two distinct requested names, both among three distinct discovered names
C10_Witness ==
    /\ Discovered
    /\ NoDuplicateNames(RawStreams)
    /\ Len(RawStreams) = 3
    /\ last.tables = <<"B", "A">>
    /\ Returned(last.outcome)

\* with a repeated name the equivalence of C10 breaks: the requested list
\* <<A, A>> fails although A was discovered
C10_BreaksWithDuplicates ==
    /\ Discovered
    /\ last.tables = <<"A", "A">>
    /\ Len(RawStreams) = 1
    /\ NameAt(RawStreams, 1) = "A"
    /\ Raised(last.outcome)
    /\ last.outcome.info.form = "not_discovered"
    /\ last.outcome.info.missing = {}

-----------------------------------------------------------------------------
(* Properties of the client operations, under SpecClient *)

ClientOps == {"create_source", "check_source", "create_destination",
              "check_destination", "discover_schema", "create_connection",
              "get_connection"}

\* a client operation was applied and the server answered
Answered == last.op \in ClientOps /\ last.exchange.kind = "response"

SuccessStatus(code) == code \in 200..299

\* C7: a client operation whose response has a status outside the success
\* range raises AirbyteAPIError and the error embeds the status code, for
\* every response body; it returns no value.
C7_NonSuccessRaisesWithStatus ==
    (Answered /\ ~SuccessStatus(last.exchange.status_code)) =>
        /\ RaisedApiError(last.outcome)
        /\ "status_code" \in DOMAIN last.outcome.info
        /\ last.outcome.info.status_code = last.exchange.status_code

\* C8: a check operation answered with a success status and a JSON object
\* returns, without raising, TRUE exactly when the object's status field is
\* "succeeded"; an absent field or any other value gives FALSE.
C8_CheckTrueIffSucceeded ==
    (/\ Answered
     /\ last.op \in {"check_source", "check_destination"}
     /\ SuccessStatus(last.exchange.status_code)
     /\ last.exchange.body.kind = "object") =>
        /\ Returned(last.outcome)
        /\ last.outcome.value \in BOOLEAN
        /\ last.outcome.value <=>
             (/\ "status" \in DOMAIN last.exchange.body.obj
              /\ last.exchange.body.obj.status = "succeeded")

\* check_destination answered 200 with a failure description returns FALSE
C8_Witness ==
    /\ Answered
    /\ last.op = "check_destination"
    /\ last.exchange.status_code = 200
    /\ last.exchange.body.kind = "object"
    /\ "status" \in DOMAIN last.exchange.body.obj
    /\ last.exchange.body.obj.status = "failed"
    /\ "message" \in DOMAIN last.exchange.body.obj
    /\ last.outcome = Return(FALSE)

-----------------------------------------------------------------------------
(* Properties of main, under Spec *)

CallOrder == <<"create_source", "check_source", "create_destination",
               "check_destination", "discover_schema", "create_connection">>

Failed == pc \in {"exited", "crashed"}

\* the i-th remote call completed successfully: a create call returned an
\* identifier, a check call returned TRUE, the catalog was built
Succeeded(i) ==
    IF log[i].op \in {"check_source", "check_destination"}
    THEN Returned(log[i].outcome) /\ log[i].outcome.value = TRUE
    ELSE IF log[i].op = "discover_schema"
    THEN Returned(log[i].outcome) /\ Returned(build)
    ELSE Returned(log[i].outcome)

\* C1: the remote calls issued are a prefix of the fixed order, each issued
\* at most once and only after every earlier call succeeded; once a call
\* raises, a check returns FALSE or catalog building fails, the run has ended
\* with exit status 1, not in the done state, and no call follows.
C1_LinearNoRetry ==
    /\ Len(log) <= Len(CallOrder)
    /\ \A i \in 1..Len(log) : log[i].op = CallOrder[i]
    /\ \A i \in 1..(Len(log) - 1) : Succeeded(i)
    /\ (Len(log) > 0 /\ ~Succeeded(Len(log))) =>
         (Failed /\ exit_code = 1 /\ stdout = Unset)
    /\ pc = "done" =>
         (Len(log) = Len(CallOrder) /\ \A i \in 1..Len(log) : Succeeded(i))

\* the destination check returned FALSE: the run ended after four calls
C1_Witness ==
    /\ Len(log) = 4
    /\ log[4].op = "check_destination"
    /\ log[4].outcome = Return(FALSE)
    /\ pc = "exited"
    /\ exit_code = 1

\* the values main requires of what it loaded from file
Required(file) ==
    IF file = "environ" THEN Range(EnvOrder)
    ELSE IF file = "mssql_source.yaml" THEN Range(SourceKeys)
    ELSE IF file = "snowflake_destination.yaml" THEN Range(DestinationKeys)
    ELSE IF file = "connection.yaml" THEN Range(ConnectionKeys)
    ELSE {}

\* what main loaded last lacks a required value
Incomplete == loaded.kind = "mapping" /\ ~(Required(loaded.file) \subseteq loaded.keys)

\* the number of remote calls main issues before it loads file
CallsBefore(file) ==
    IF file = "snowflake_destination.yaml" THEN 2
    ELSE IF file = "connection.yaml" THEN 4
    ELSE 0

\* C2 as stated: a run that ends with a configuration error (an environment
\* value or a key of one of the three documents is missing) has issued no
\* remote call.
C2_ConfigErrorBeforeAnyCall ==
    Incomplete => Len(log) = 0

\* C2 as amended: a missing value is reported and ends the run with exit
\* status 1 with no remote call after it; the calls issued before it are none
\* for the environment and the source document, create_source and
\* check_source for the destination document, and the first four calls for
\* the connection document, all of them successful.
C2_ConfigErrorStopsRun ==
    Incomplete =>
        /\ pc = "exited"
        /\ exit_code = 1
        /\ stderr.error = IF loaded.file = "environ" THEN "missing_env"
                          ELSE "missing_key"
        /\ Len(log) = CallsBefore(loaded.file)
        /\ \A i \in 1..Len(log) : log[i].op = CallOrder[i] /\ Succeeded(i)

\* connection.yaml lacks a key: four calls were issued before the error
C2_Witness ==
    /\ Incomplete
    /\ loaded.file = "connection.yaml"
    /\ pc = "exited"
    /\ stderr.error = "missing_key"
    /\ Len(log) = 4

\* the stream list of the discovery response main received
DiscoveryOf(i) ==
    IF Returned(log[i].outcome) /\ log[i].outcome.value.kind = "object"
       /\ "streams" \in DOMAIN log[i].outcome.value.obj
    THEN log[i].outcome.value.obj.streams
    ELSE <<>>

\* C4: when discovery returns no stream, or the retained streams omit a
\* requested table, catalog building fails and the run ends before
\* connection creation: create_connection is never issued with a catalog
\* that lacks a requested table, nor after an empty discovery result.
C4_NoConnectionWithoutRequestedTables ==
    /\ (Len(log) >= 5 /\ Returned(log[5].outcome)
          /\ (\/ DiscoveryOf(5) = <<>>
              \/ \E t \in Range(conn_cfg.tables) : t \notin Names(DiscoveryOf(5)))) =>
         (Raised(build) /\ pc = "exited" /\ Len(log) = 5)
    /\ \A i \in 1..Len(log) :
         log[i].op = "create_connection" =>
           /\ DiscoveryOf(i - 1) # <<>>
           /\ \A t \in Range(conn_cfg.tables) :
                t \in Names(log[i].payload.syncCatalog.streams)

\* nothing main loaded so far was unusable
ConfigComplete ==
    \/ loaded.kind = "none"
    \/ loaded.kind = "mapping" /\ Required(loaded.file) \subseteq loaded.keys

\* the i-th remote call succeeded in the sense of C9: a create call returned
\* an identifier, a check reported the success status, discovery returned
\* each requested table
Answer(i) ==
    IF log[i].op \in {"check_source", "check_destination"}
    THEN Returned(log[i].outcome) /\ log[i].outcome.value = TRUE
    ELSE IF log[i].op = "discover_schema"
    THEN /\ Returned(log[i].outcome)
         /\ log[i].outcome.value.kind = "object"
         /\ "streams" \in DOMAIN log[i].outcome.value.obj
         /\ Range(conn_cfg.tables) \subseteq Names(DiscoveryOf(i))
    ELSE Returned(log[i].outcome)

\* the run is over
Ended == pc \in {"done", "exited", "crashed"}

\* what C9 concludes of a run whose configuration is complete and whose
\* remote calls all succeeded
RunsToDone ==
    /\ ~Failed
    /\ ~Ended => ENABLED Next
    /\ pc = "done" =>
         /\ exit_code = 0
         /\ Len(log) = Len(CallOrder)
         /\ \A i \in 1..Len(log) : log[i].op = CallOrder[i]
         /\ stdout = [source_id |-> log[1].outcome.value,
                      destination_id |-> log[3].outcome.value,
                      connection_id |-> log[6].outcome.value]
         /\ log[6].payload.sourceId = log[1].outcome.value
         /\ log[6].payload.destinationId = log[3].outcome.value
         /\ log[6].payload.syncCatalog = build.value

Retained(i) ==
    Cardinality({ k \in 1..Len(DiscoveryOf(i)) :
                    NameAt(DiscoveryOf(i), k) \in Range(conn_cfg.tables) })

\* the i-th remote call succeeded, discovery having returned a non-empty
\* stream list that holds as many streams with a requested name as the
\* requested list has entries
AnswerCounted(i) ==
    IF log[i].op = "discover_schema"
    THEN /\ Returned(log[i].outcome)
         /\ log[i].outcome.value.kind = "object"
         /\ DiscoveryOf(i) # <<>>
         /\ Retained(i) = Len(conn_cfg.tables)
    ELSE Answer(i)

====
